---- MODULE Spec2Model ----
(***************************************************************************)
(* Synchronized checkpoints (src/src/checkpointsync.cpp): the checkpoint   *)
(* state, the consistency validator, the acceptance of signed checkpoint   *)
(* messages, the pending checkpoint, the block gate, the automatic         *)
(* selection and the reset on a change of the checkpoint master key.       *)
(***************************************************************************)
EXTENDS Integers, Sequences, FiniteSets, TLC

(***************************************************************************)
(* Bounds.                                                                 *)
(***************************************************************************)
\* Blocks that can ever exist are 1..NumBlocks; block b's parent is b \div 2,
\* so block 1 is the genesis block and every block has up to two children.
NumBlocks == 4
\* Largest -checkpointdepth argument tried.
MaxDepth == 3
\* Peers that can be connected at once.
NumNodes == 1

(***************************************************************************)
(* The block index (external: mapBlockIndex, CBlockIndex, CChain).         *)
(***************************************************************************)
\* uint256(): the null hash.
NullHash == 0

Hashes == 0..NumBlocks

Blocks == 1..NumBlocks

hashGenesisBlock == 1

\* CBlockIndex::pprev, NullHash standing for the null pointer.
pprev(b) == b \div 2

RECURSIVE nHeight(_)
\* CBlockIndex::nHeight.
nHeight(b) == IF b <= 1 THEN 0 ELSE 1 + nHeight(pprev(b))

MaxHeight == nHeight(NumBlocks)

Heights == 0..(MaxHeight + 1)

(***************************************************************************)
(* Keys, hashing, signatures, serialization (external primitives).         *)
(***************************************************************************)
\* Key pairs: the private key k signs, the public key k verifies.
MasterKeys == {"P1", "P2"}

\* An unset string, an unparsable key.
NoKey == ""

InvalidKey == "garbage"

\* DecodeSecret(str).IsValid()
IsValidSecret(str) == str \in MasterKeys

\* Hash(begin, end): collision free on the payloads of the model.
Hash(vch) == <<"hash", vch>>

NoSig == [key |-> NoKey, digest |-> <<>>]

\* CKey::Sign
Sign(key, digest) == [key |-> key, digest |-> digest]

\* CPubKey::Verify
Verify(pubkey, digest, vchSig) ==
    /\ vchSig.key = pubkey
    /\ pubkey \in MasterKeys
    /\ vchSig.digest = digest

\* The 32 bit little endian bytes of an int, as CDataStream writes them.
LE32(n) == << n % 256, (n \div 256) % 256, (n \div 65536) % 256, (n \div 16777216) % 256 >>

\* sMsg << static_cast<CUnsignedSyncCheckpoint>(checkpoint): the version, then the hash.
Serialize(nVersion, hashCheckpoint) == LE32(nVersion) \o <<hashCheckpoint>>

\* sMsg >> *static_cast<CUnsignedSyncCheckpoint*>(this)
Unserialize(vchMsg) ==
    [nVersion |-> vchMsg[1] + 256 * vchMsg[2] + 65536 * vchMsg[3] + 16777216 * vchMsg[4],
     hashCheckpoint |-> vchMsg[5]]

(***************************************************************************)
(* CSyncCheckpoint                                                         *)
(***************************************************************************)
\* CSyncCheckpoint::SetNull
NullMessage == [nVersion |-> 1, hashCheckpoint |-> NullHash, vchMsg |-> <<>>, vchSig |-> NoSig]

\* CSyncCheckpoint::IsNull
IsNull(m) == m.hashCheckpoint = NullHash

\* A message as a peer can send it: the payload encodes (1, h) and is signed by
\* signer (a master key, or NoKey for a signature that is garbage); the fields
\* nVersion and hashCheckpoint travel beside the payload and need not agree with it.
WireMessage(fieldHash, h, signer) ==
    [nVersion |-> 1, hashCheckpoint |-> fieldHash,
     vchMsg |-> Serialize(1, h),
     vchSig |-> IF signer = NoKey THEN NoSig ELSE Sign(signer, Hash(Serialize(1, h)))]

InboundMessages ==
    { WireMessage(h, h, k) : h \in Hashes, k \in MasterKeys \cup {NoKey} }
    \cup { WireMessage(NullHash, h, "P1") : h \in Blocks }

\* Versions a message can carry: one, and values that fill the further bytes.
Versions == {1, 2, 258, 16777217}

\* A message object before CheckSignature: the payload encodes (v, h) and is signed
\* by signer, while the fields nVersion and hashCheckpoint were set beside it.
CodecMessage(fieldVersion, fieldHash, v, h, signer) ==
    [nVersion |-> fieldVersion, hashCheckpoint |-> fieldHash,
     vchMsg |-> Serialize(v, h),
     vchSig |-> IF signer = NoKey THEN NoSig ELSE Sign(signer, Hash(Serialize(v, h)))]

CodecMessages ==
    { CodecMessage(fv, fh, v, h, k) :
        fv \in {1, 258}, fh \in Hashes, v \in Versions, h \in Hashes,
        k \in MasterKeys \cup {NoKey} }

(***************************************************************************)
(* State.                                                                  *)
(***************************************************************************)
VARIABLES
    mapBlockIndex,            \* the hashes ::BlockIndex() holds
    chainTip,                 \* ::ChainActive().Tip()
    nullPprev,                \* blocks above the genesis block whose pprev is a null pointer
    hashSyncCheckpoint,       \* the active checkpoint
    hashPendingCheckpoint,    \* the pending checkpoint
    checkpointMessage,        \* the last accepted message
    checkpointMessagePending, \* the message of the pending checkpoint
    dbSyncCheckpoint,         \* pblocktree's sync checkpoint record
    dbCheckpointPubKey,       \* pblocktree's checkpoint master public key record
    checkpointPubKey,         \* Params().GetConsensus().checkpointPubKey
    strMasterPrivKey,         \* CSyncCheckpoint::strMasterPrivKey
    g_connman,                \* whether the connection manager exists
    vNodes,                   \* the peers: connected, supportACPMessages, hashCheckpointKnown
    pushed,                   \* the <<node, hash>> of the checkpoint messages pushed to the peers
    deferredUnknown,          \* the last deferral was for a block the index did not hold
    autoSelect,               \* the search of AutoSelectSyncCheckpoint that is under way
    last                      \* the last call: its arguments, return value and code path

vars == << mapBlockIndex, chainTip, nullPprev, hashSyncCheckpoint, hashPendingCheckpoint,
           checkpointMessage, checkpointMessagePending, dbSyncCheckpoint,
           dbCheckpointPubKey, checkpointPubKey, strMasterPrivKey, g_connman,
           vNodes, pushed, deferredUnknown, autoSelect, last >>

chainVars == << mapBlockIndex, chainTip, nullPprev >>

memVars == << hashSyncCheckpoint, hashPendingCheckpoint, checkpointMessage,
              checkpointMessagePending, deferredUnknown >>

dbVars == << dbSyncCheckpoint, dbCheckpointPubKey >>

netVars == << g_connman, vNodes, pushed >>

Nodes == 1..NumNodes

NoNode == [connected |-> FALSE, supportACPMessages |-> FALSE, hashCheckpointKnown |-> NullHash]

\* What a call leaves behind for the properties to read: its arguments, its
\* return value, the path it took, the pushes it made to peers, and whether it
\* follows a call of the same operation that accepted a checkpoint or reset it
\* (for the automatic selection: a reorganization of the active chain).
CallRelaying(op, msg, hash, n, ret, path, relay) ==
    [op |-> op, msg |-> msg, hash |-> hash, n |-> n, ret |-> ret, path |-> path,
     relay |-> relay,
     prev |-> IF /\ \/ last.op = op
                    \/ (op = "AutoSelectSyncCheckpoint" /\ last.op = "ActivateBestChain")
                 /\ last.path \in {"accepted", "reset", "reorganized"}
              THEN last.path ELSE "other"]

\* No search of AutoSelectSyncCheckpoint is under way.
NoSearch == [pc |-> "idle", pindex |-> NullHash, depth |-> 0, held |-> FALSE]

\* cs_main is free for the threads that drive the chain and handle messages: the
\* thread that runs AutoSelectSyncCheckpoint does not hold it.
cs_mainFree == ~autoSelect.held

Call(op, msg, hash, n, ret, path) == CallRelaying(op, msg, hash, n, ret, path, {})

Init ==
    /\ mapBlockIndex = {hashGenesisBlock}
    /\ chainTip = hashGenesisBlock
    /\ nullPprev = {}
    /\ hashSyncCheckpoint = NullHash
    /\ hashPendingCheckpoint = NullHash
    /\ checkpointMessage = NullMessage
    /\ checkpointMessagePending = NullMessage
    /\ dbSyncCheckpoint = NullHash
    /\ dbCheckpointPubKey = NoKey
    /\ checkpointPubKey = "P1"
    /\ strMasterPrivKey = NoKey
    /\ g_connman = FALSE
    /\ vNodes = [n \in Nodes |-> NoNode]
    /\ pushed = {}
    /\ deferredUnknown = FALSE
    /\ autoSelect = NoSearch
    /\ last = [op |-> "init", msg |-> NullMessage, hash |-> NullHash, n |-> 0, ret |-> TRUE,
               path |-> "init", relay |-> {}, prev |-> "other"]

(***************************************************************************)
(* The chain state, which the rest of the node drives.                     *)
(***************************************************************************)
RECURSIVE Ancestor(_, _)
\* The block reached from b by following pprev down to height h (NullHash when
\* the links end first).
Ancestor(b, h) ==
    IF b = NullHash THEN NullHash
    ELSE IF nHeight(b) > h THEN Ancestor(pprev(b), h)
    ELSE b

\* CChain::Contains: the block is on the chain that ends in the tip.
ChainActiveContains(b) == Ancestor(chainTip, nHeight(b)) = b

\* A block (header) is accepted into the block index; its parent is there already.
AddToBlockIndex(b) ==
    /\ cs_mainFree
    /\ b \in Blocks \ mapBlockIndex
    /\ pprev(b) \in mapBlockIndex
    /\ mapBlockIndex' = mapBlockIndex \cup {b}
    /\ last' = Call("AddToBlockIndex", NullMessage, b, 0, TRUE, "added")
    /\ UNCHANGED << chainTip, nullPprev, autoSelect, memVars, dbVars, checkpointPubKey, strMasterPrivKey,
                    netVars >>

\* The active chain is extended or reorganized to end in a block of the index.
ActivateBestChain(b) ==
    /\ cs_mainFree
    /\ b \in mapBlockIndex
    /\ b # chainTip
    /\ chainTip' = b
    /\ last' = Call("ActivateBestChain", NullMessage, b, 0, TRUE,
                    IF Ancestor(b, nHeight(chainTip)) = chainTip THEN "extended" ELSE "reorganized")
    /\ UNCHANGED << mapBlockIndex, nullPprev, autoSelect, memVars, dbVars, checkpointPubKey,
                    strMasterPrivKey, netVars >>

\* The block index is corrupted: block b above the genesis block loses the pointer
\* to its parent. One such fault is considered.
CorruptBlockIndex(b) ==
    /\ b \in mapBlockIndex \ {hashGenesisBlock}
    /\ nullPprev = {}
    /\ nullPprev' = {b}
    /\ last' = Call("CorruptBlockIndex", NullMessage, b, 0, TRUE, "corrupted")
    /\ UNCHANGED << mapBlockIndex, chainTip, autoSelect, memVars, dbVars, checkpointPubKey,
                    strMasterPrivKey, netVars >>

\* pindex->pprev as the code reads it, NullHash standing for the null pointer.
pprevPtr(pindex) == IF pindex \in nullPprev THEN NullHash ELSE pprev(pindex)

(***************************************************************************)
(* ValidateSyncCheckpoint                                                  *)
(***************************************************************************)
RECURSIVE TraceBack(_, _)
\* while (pindex->nHeight > h) if (!(pindex = pindex->pprev)) return error(...);
\* NullHash is the error return, else the block the loop stops at.
TraceBack(pindex, h) ==
    IF nHeight(pindex) > h
    THEN IF pprevPtr(pindex) = NullHash THEN NullHash ELSE TraceBack(pprevPtr(pindex), h)
    ELSE pindex

\* ValidateSyncCheckpoint without the comparison that ends it: whatever is higher
\* than the sync-checkpoint counts as its descendant.
ValidateSyncCheckpoint_NoAncestryCheck(hashCheckpoint) ==
    IF hashSyncCheckpoint \notin mapBlockIndex THEN "missing_current"
    ELSE IF hashCheckpoint \notin mapBlockIndex THEN "missing_received"
    ELSE IF nHeight(hashCheckpoint) <= nHeight(hashSyncCheckpoint)
         THEN LET pindex == TraceBack(hashSyncCheckpoint, nHeight(hashCheckpoint)) IN
              IF pindex = NullHash THEN "pprev1_null"
              ELSE IF pindex # hashCheckpoint THEN "conflicting"
              ELSE "older"
         ELSE LET pindex == TraceBack(hashCheckpoint, nHeight(hashSyncCheckpoint)) IN
              IF pindex = NullHash THEN "pprev2_null"
              ELSE "descendant"

\* ValidateSyncCheckpoint with < for <= where the heights are compared.
ValidateSyncCheckpoint_StrictLess(hashCheckpoint) ==
    IF hashSyncCheckpoint \notin mapBlockIndex THEN "missing_current"
    ELSE IF hashCheckpoint \notin mapBlockIndex THEN "missing_received"
    ELSE IF nHeight(hashCheckpoint) < nHeight(hashSyncCheckpoint)
         THEN LET pindex == TraceBack(hashSyncCheckpoint, nHeight(hashCheckpoint)) IN
              IF pindex = NullHash THEN "pprev1_null"
              ELSE IF pindex # hashCheckpoint THEN "conflicting"
              ELSE "older"
         ELSE LET pindex == TraceBack(hashCheckpoint, nHeight(hashSyncCheckpoint)) IN
              IF pindex = NullHash THEN "pprev2_null"
              ELSE IF pindex # hashSyncCheckpoint THEN "not_descendant"
              ELSE "descendant"

\* ValidateSyncCheckpoint that takes the genesis block for a sync-checkpoint that
\* is null.
ValidateSyncCheckpoint_NullIsGenesis(hashCheckpoint) ==
    LET hashSync == IF hashSyncCheckpoint = NullHash THEN hashGenesisBlock
                    ELSE hashSyncCheckpoint IN
    IF hashSync \notin mapBlockIndex THEN "missing_current"
    ELSE IF hashCheckpoint \notin mapBlockIndex THEN "missing_received"
    ELSE IF nHeight(hashCheckpoint) <= nHeight(hashSync)
         THEN LET pindex == TraceBack(hashSync, nHeight(hashCheckpoint)) IN
              IF pindex = NullHash THEN "pprev1_null"
              ELSE IF pindex # hashCheckpoint THEN "conflicting"
              ELSE "older"
         ELSE LET pindex == TraceBack(hashCheckpoint, nHeight(hashSync)) IN
              IF pindex = NullHash THEN "pprev2_null"
              ELSE IF pindex # hashSync THEN "not_descendant"
              ELSE "descendant"

\* The path ValidateSyncCheckpoint takes for hashCheckpoint; it returns true on
\* "descendant" alone.
ValidateSyncCheckpoint(hashCheckpoint) ==
    IF hashSyncCheckpoint \notin mapBlockIndex THEN "missing_current"
    ELSE IF hashCheckpoint \notin mapBlockIndex THEN "missing_received"
    ELSE IF nHeight(hashCheckpoint) <= nHeight(hashSyncCheckpoint)
         THEN LET pindex == TraceBack(hashSyncCheckpoint, nHeight(hashCheckpoint)) IN
              IF pindex = NullHash THEN "pprev1_null"
              ELSE IF pindex # hashCheckpoint THEN "conflicting"
              ELSE "older"
         ELSE LET pindex == TraceBack(hashCheckpoint, nHeight(hashSyncCheckpoint)) IN
              IF pindex = NullHash THEN "pprev2_null"
              ELSE IF pindex # hashSyncCheckpoint THEN "not_descendant"
              ELSE "descendant"

(***************************************************************************)
(* WriteSyncCheckpoint: the record is written, then the memory; when the   *)
(* write to the database fails nothing changes.                            *)
(***************************************************************************)
\* WriteSyncCheckpoint that sets the memory before it knows that the database has
\* the record.
WriteSyncCheckpoint_MemoryFirst(hashCheckpoint, writeOk) ==
    /\ hashSyncCheckpoint' = hashCheckpoint
    /\ dbSyncCheckpoint' = IF writeOk THEN hashCheckpoint ELSE dbSyncCheckpoint

WriteSyncCheckpoint(hashCheckpoint, writeOk) ==
    IF writeOk
    THEN /\ dbSyncCheckpoint' = hashCheckpoint
         /\ hashSyncCheckpoint' = hashCheckpoint
    ELSE UNCHANGED << dbSyncCheckpoint, hashSyncCheckpoint >>

(***************************************************************************)
(* CSyncCheckpoint::RelayTo and the loops over the peers.                  *)
(***************************************************************************)
\* RelayTo without the comparison with the hash the peer was pushed last.
RelayToPushes_NoKnownCheck(n, m) ==
    /\ g_connman
    /\ vNodes[n].connected
    /\ vNodes[n].supportACPMessages

\* Whether RelayTo pushes the message to node n.
RelayToPushes(n, m) ==
    /\ g_connman
    /\ vNodes[n].connected
    /\ vNodes[n].hashCheckpointKnown # m.hashCheckpoint
    /\ vNodes[n].supportACPMessages

\* The pushes ForEachNode(... RelayTo ...) makes over the nodes of to, with
\* cs_main held by the caller or not; again tells that the node was pushed this
\* hash before.
Relayed(to, m, locked) ==
    { [node |-> n, hash |-> m.hashCheckpoint, locked |-> locked,
       again |-> <<n, m.hashCheckpoint>> \in pushed]
      : n \in { x \in to : RelayToPushes(x, m) } }

RelayToNodes(to, m) ==
    /\ vNodes' = [n \in Nodes |->
                    IF n \in to /\ RelayToPushes(n, m)
                    THEN [vNodes[n] EXCEPT !.hashCheckpointKnown = m.hashCheckpoint]
                    ELSE vNodes[n]]
    /\ pushed' = pushed \cup { <<n, m.hashCheckpoint>> : n \in { x \in to : RelayToPushes(x, m) } }

(***************************************************************************)
(* CSyncCheckpoint::CheckSignature                                         *)
(***************************************************************************)
\* CheckSignature that checks the signature against the payload but not against
\* the master key.
SignatureVerifies_AnyKey(m) ==
    m.vchSig.key \in MasterKeys /\ m.vchSig.digest = Hash(m.vchMsg)

\* CheckSignature that verifies but does not read the fields back from the payload.
CheckSignature_KeepFields(m) == m

\* Whether the signature of m verifies against the configured master key.
SignatureVerifies(m) == Verify(checkpointPubKey, Hash(m.vchMsg), m.vchSig)

\* The message object after CheckSignature: on success its unsigned fields are
\* overwritten from the payload, on failure it is left as it was.
CheckSignature(m) ==
    IF SignatureVerifies(m)
    THEN [m EXCEPT !.nVersion = Unserialize(m.vchMsg).nVersion,
                   !.hashCheckpoint = Unserialize(m.vchMsg).hashCheckpoint]
    ELSE m

\* CheckSignature is called on a message object; the call leaves in last the
\* object as it was (msg) and the fields it has afterwards (n, hash).
CallCheckSignature(m) ==
    /\ last' = Call("CheckSignature", m, CheckSignature(m).hashCheckpoint,
                    CheckSignature(m).nVersion, SignatureVerifies(m),
                    IF SignatureVerifies(m) THEN "verified" ELSE "bad_signature")
    /\ UNCHANGED << chainVars, autoSelect, memVars, dbVars, checkpointPubKey, strMasterPrivKey, netVars >>

(***************************************************************************)
(* CSyncCheckpoint::ProcessSyncCheckpoint                                  *)
(***************************************************************************)
\* ProcessSyncCheckpoint that accepts whatever the master has signed: neither the
\* deferral of blocks it does not know nor the validation.
ProcessPath_TrustSigned(m, writeOk) ==
    IF ~SignatureVerifies(m) THEN "bad_signature"
    ELSE IF ~writeOk THEN "write_failed"
    ELSE "accepted"

\* ProcessSyncCheckpoint that defers only what the block index does not hold.
ProcessPath_NoChainCheck(m, writeOk) ==
    LET this == CheckSignature(m) IN
    IF ~SignatureVerifies(m) THEN "bad_signature"
    ELSE IF this.hashCheckpoint \notin mapBlockIndex THEN "pending"
    ELSE IF ValidateSyncCheckpoint(this.hashCheckpoint) # "descendant"
         THEN ValidateSyncCheckpoint(this.hashCheckpoint)
    ELSE IF ~writeOk THEN "write_failed"
    ELSE "accepted"

\* The path ProcessSyncCheckpoint takes for message m; it returns true on
\* "accepted" alone.
ProcessPath(m, writeOk) ==
    LET this == CheckSignature(m) IN
    IF ~SignatureVerifies(m) THEN "bad_signature"
    ELSE IF \/ this.hashCheckpoint \notin mapBlockIndex
            \/ ~ChainActiveContains(this.hashCheckpoint)
         THEN "pending"
    ELSE IF ValidateSyncCheckpoint(this.hashCheckpoint) # "descendant"
         THEN ValidateSyncCheckpoint(this.hashCheckpoint)
    ELSE IF ~writeOk THEN "write_failed"
    ELSE "accepted"

\* The effect of ProcessSyncCheckpoint on the checkpoint state.
ProcessEffect(m, writeOk) ==
    LET this == CheckSignature(m)
        path == ProcessPath(m, writeOk) IN
    CASE path = "pending" ->
            /\ hashPendingCheckpoint' = this.hashCheckpoint
            /\ checkpointMessagePending' = this
            /\ deferredUnknown' = (this.hashCheckpoint \notin mapBlockIndex)
            /\ UNCHANGED << hashSyncCheckpoint, checkpointMessage, dbSyncCheckpoint >>
      [] path = "accepted" ->
            /\ WriteSyncCheckpoint(this.hashCheckpoint, writeOk)
            /\ checkpointMessage' = this
            /\ hashPendingCheckpoint' = NullHash
            /\ checkpointMessagePending' = NullMessage
            /\ UNCHANGED deferredUnknown
      [] path = "write_failed" ->
            /\ WriteSyncCheckpoint(this.hashCheckpoint, writeOk)
            /\ UNCHANGED << hashPendingCheckpoint, checkpointMessage,
                            checkpointMessagePending, deferredUnknown >>
      [] OTHER ->
            UNCHANGED << memVars, dbSyncCheckpoint >>

\* A checkpoint message arrives from the network and is processed.
ProcessSyncCheckpoint(m, writeOk) ==
    /\ cs_mainFree
    /\ ProcessEffect(m, writeOk)
    /\ last' = Call("ProcessSyncCheckpoint", m, CheckSignature(m).hashCheckpoint, 0,
                    ProcessPath(m, writeOk) = "accepted", ProcessPath(m, writeOk))
    /\ UNCHANGED << chainVars, autoSelect, dbCheckpointPubKey, checkpointPubKey, strMasterPrivKey, netVars >>

(***************************************************************************)
(* AcceptPendingSyncCheckpoint                                             *)
(***************************************************************************)
\* AcceptPendingSyncCheckpoint without the call of ValidateSyncCheckpoint.
AcceptPendingPath_NoValidate(writeOk) ==
    IF ~(hashPendingCheckpoint # NullHash /\ hashPendingCheckpoint \in mapBlockIndex)
    THEN "no_pending"
    ELSE IF ~ChainActiveContains(hashPendingCheckpoint) THEN "not_in_chain"
    ELSE IF ~writeOk THEN "write_failed"
    ELSE "accepted"

\* AcceptPendingSyncCheckpoint that asks whether the active chain holds the block
\* before it validates.
AcceptPendingPath_ChainFirst(writeOk) ==
    IF ~(hashPendingCheckpoint # NullHash /\ hashPendingCheckpoint \in mapBlockIndex)
    THEN "no_pending"
    ELSE IF ~ChainActiveContains(hashPendingCheckpoint) THEN "not_in_chain"
    ELSE IF ValidateSyncCheckpoint(hashPendingCheckpoint) # "descendant"
         THEN ValidateSyncCheckpoint(hashPendingCheckpoint)
    ELSE IF ~writeOk THEN "write_failed"
    ELSE "accepted"

\* The path AcceptPendingSyncCheckpoint takes; it returns true on "accepted" alone.
AcceptPendingPath(writeOk) ==
    IF ~(hashPendingCheckpoint # NullHash /\ hashPendingCheckpoint \in mapBlockIndex)
    THEN "no_pending"
    ELSE IF ValidateSyncCheckpoint(hashPendingCheckpoint) # "descendant"
         THEN ValidateSyncCheckpoint(hashPendingCheckpoint)
    ELSE IF ~ChainActiveContains(hashPendingCheckpoint) THEN "not_in_chain"
    ELSE IF ~writeOk THEN "write_failed"
    ELSE "accepted"

\* AcceptPendingSyncCheckpoint that returns at once, as on these paths, also when
\* the validation finds a null pprev.
AcceptPendingUntouched_OnCorruptIndex ==
    {"no_pending", "not_in_chain", "pprev1_null", "pprev2_null"}

\* The paths on which AcceptPendingSyncCheckpoint returns false with nothing touched.
AcceptPendingUntouched == {"no_pending", "not_in_chain"}

\* The nodes the loop of AcceptPendingSyncCheckpoint calls RelayTo on.
SupportingNodes == {n \in Nodes : vNodes[n].connected /\ vNodes[n].supportACPMessages}

AcceptPendingSyncCheckpoint(writeOk) ==
    LET path == AcceptPendingPath(writeOk) IN
    /\ cs_mainFree
    /\ CASE path \in AcceptPendingUntouched ->
                UNCHANGED << memVars, dbSyncCheckpoint, vNodes, pushed >>
         [] path = "write_failed" ->
                /\ WriteSyncCheckpoint(hashPendingCheckpoint, writeOk)
                /\ UNCHANGED << hashPendingCheckpoint, checkpointMessage,
                                checkpointMessagePending, deferredUnknown, vNodes, pushed >>
         [] path = "accepted" ->
                /\ WriteSyncCheckpoint(hashPendingCheckpoint, writeOk)
                /\ hashPendingCheckpoint' = NullHash
                /\ checkpointMessage' = checkpointMessagePending
                /\ checkpointMessagePending' = NullMessage
                /\ UNCHANGED deferredUnknown
                /\ IF g_connman /\ ~IsNull(checkpointMessagePending)
                   THEN RelayToNodes(SupportingNodes, checkpointMessagePending)
                   ELSE UNCHANGED << vNodes, pushed >>
         [] OTHER ->
                /\ hashPendingCheckpoint' = NullHash
                /\ checkpointMessagePending' = NullMessage
                /\ UNCHANGED deferredUnknown
                /\ UNCHANGED << hashSyncCheckpoint, checkpointMessage, dbSyncCheckpoint,
                                vNodes, pushed >>
    /\ last' = CallRelaying("AcceptPendingSyncCheckpoint", checkpointMessagePending,
                            hashPendingCheckpoint, 0, path = "accepted", path,
                            IF path = "accepted" /\ g_connman /\ ~IsNull(checkpointMessagePending)
                            THEN Relayed(SupportingNodes, checkpointMessagePending, TRUE)
                            ELSE {})
    /\ UNCHANGED << chainVars, autoSelect, dbCheckpointPubKey, checkpointPubKey, strMasterPrivKey,
                    g_connman >>

(***************************************************************************)
(* AutoSelectSyncCheckpoint                                                *)
(***************************************************************************)
RECURSIVE SearchBackward_OffByOne(_, _)
\* The search with >= for >: it goes one block too far back.
SearchBackward_OffByOne(pindex, depth) ==
    IF pprevPtr(pindex) # NullHash /\ nHeight(pindex) + depth >= nHeight(chainTip)
    THEN SearchBackward_OffByOne(pprevPtr(pindex), depth)
    ELSE pindex

RECURSIVE SearchBackward(_, _)
\* while (pindex->pprev && pindex->nHeight + depth > Tip()->nHeight) pindex = pindex->pprev;
SearchBackward(pindex, depth) ==
    IF pprevPtr(pindex) # NullHash /\ nHeight(pindex) + depth > nHeight(chainTip)
    THEN SearchBackward(pprevPtr(pindex), depth)
    ELSE pindex

\* The hash AutoSelectSyncCheckpoint returns when -checkpointdepth is depth.
AutoSelectSyncCheckpoint(depth) == SearchBackward(chainTip, depth)

\* The master asks for the block to checkpoint.
CallAutoSelectSyncCheckpoint(depth) ==
    /\ last' = Call("AutoSelectSyncCheckpoint", NullMessage,
                    AutoSelectSyncCheckpoint(depth), depth, TRUE, "selected")
    /\ UNCHANGED << chainVars, autoSelect, memVars, dbVars, checkpointPubKey, strMasterPrivKey, netVars >>

\* Whether the thread that calls AutoSelectSyncCheckpoint holds cs_main when it
\* calls: the function neither takes the lock nor asserts that it is held, and its
\* callers (the master's broadcast trigger) are not in this file.
CallerHoldsLock == BOOLEAN

\* AutoSelectSyncCheckpoint step by step, as its thread runs it beside the threads
\* that drive the chain.  It is entered: pindex = ::ChainActive().Tip().
AutoSelectEnter(depth, held) ==
    /\ autoSelect.pc = "idle"
    /\ autoSelect' = [pc |-> "search", pindex |-> chainTip, depth |-> depth, held |-> held]
    /\ last' = Call("AutoSelectEnter", NullMessage, chainTip, depth, TRUE,
                    IF held THEN "caller_locked" ELSE "unlocked")
    /\ UNCHANGED << chainVars, memVars, dbVars, checkpointPubKey, strMasterPrivKey, netVars >>

\* One evaluation of the loop condition, which reads pindex->pprev, pindex->nHeight
\* and the tip of the active chain as it is now, and the statement it guards: the
\* step to the parent, or the return of pindex->GetBlockHash().
AutoSelectLoop ==
    /\ autoSelect.pc = "search"
    /\ IF /\ pprevPtr(autoSelect.pindex) # NullHash
          /\ nHeight(autoSelect.pindex) + autoSelect.depth > nHeight(chainTip)
       THEN /\ autoSelect' = [autoSelect EXCEPT !.pindex = pprevPtr(autoSelect.pindex)]
            /\ last' = Call("AutoSelectLoop", NullMessage, pprevPtr(autoSelect.pindex),
                            autoSelect.depth, TRUE, "stepped")
       ELSE /\ autoSelect' = NoSearch
            /\ last' = Call("AutoSelectReturn", NullMessage, autoSelect.pindex,
                            autoSelect.depth, TRUE, "returned")
    /\ UNCHANGED << chainVars, memVars, dbVars, checkpointPubKey, strMasterPrivKey, netVars >>

(***************************************************************************)
(* CheckSyncCheckpoint                                                     *)
(***************************************************************************)
\* CheckSyncCheckpoint without the return for a null sync-checkpoint.
CheckSyncCheckpoint_NoNullCheck(hashBlock, nHeightBlock) ==
    IF nHeightBlock = 0 THEN "genesis"
    ELSE IF hashSyncCheckpoint \notin mapBlockIndex THEN "assert"
    ELSE LET nHeightSync == nHeight(hashSyncCheckpoint)
             pindex == TraceBack(chainTip, nHeightSync) IN
         IF nHeightBlock > nHeightSync /\ pindex = NullHash THEN "pprev_null"
         ELSE IF /\ nHeightBlock > nHeightSync
                 /\ (nHeight(pindex) < nHeightSync \/ pindex # hashSyncCheckpoint)
              THEN "tip_not_descendant"
         ELSE IF nHeightBlock = nHeightSync /\ hashBlock # hashSyncCheckpoint
              THEN "same_height"
         ELSE IF nHeightBlock < nHeightSync /\ hashBlock \notin mapBlockIndex
              THEN "lower_height"
         ELSE "passed"

\* CheckSyncCheckpoint without the check of blocks below the sync-checkpoint.
CheckSyncCheckpoint_NoLowerCheck(hashBlock, nHeightBlock) ==
    IF nHeightBlock = 0 THEN "genesis"
    ELSE IF hashSyncCheckpoint = NullHash THEN "no_checkpoint"
    ELSE IF hashSyncCheckpoint \notin mapBlockIndex THEN "assert"
    ELSE LET nHeightSync == nHeight(hashSyncCheckpoint)
             pindex == TraceBack(chainTip, nHeightSync) IN
         IF nHeightBlock > nHeightSync /\ pindex = NullHash THEN "pprev_null"
         ELSE IF /\ nHeightBlock > nHeightSync
                 /\ (nHeight(pindex) < nHeightSync \/ pindex # hashSyncCheckpoint)
              THEN "tip_not_descendant"
         ELSE IF nHeightBlock = nHeightSync /\ hashBlock # hashSyncCheckpoint
              THEN "same_height"
         ELSE "passed"

\* The path CheckSyncCheckpoint takes for a block hashBlock at height nHeightBlock.
\* It returns true on "genesis", "no_checkpoint" and "passed", false on the
\* others but "assert", where the assertion that the sync-checkpoint is in the
\* block index fails.
CheckSyncCheckpoint(hashBlock, nHeightBlock) ==
    IF nHeightBlock = 0 THEN "genesis"
    ELSE IF hashSyncCheckpoint = NullHash THEN "no_checkpoint"
    ELSE IF hashSyncCheckpoint \notin mapBlockIndex THEN "assert"
    ELSE LET nHeightSync == nHeight(hashSyncCheckpoint)
             pindex == TraceBack(chainTip, nHeightSync) IN
         IF nHeightBlock > nHeightSync /\ pindex = NullHash THEN "pprev_null"
         ELSE IF /\ nHeightBlock > nHeightSync
                 /\ (nHeight(pindex) < nHeightSync \/ pindex # hashSyncCheckpoint)
              THEN "tip_not_descendant"
         ELSE IF nHeightBlock = nHeightSync /\ hashBlock # hashSyncCheckpoint
              THEN "same_height"
         ELSE IF nHeightBlock < nHeightSync /\ hashBlock \notin mapBlockIndex
              THEN "lower_height"
         ELSE "passed"

CheckSyncCheckpointReturns(path) == path \in {"genesis", "no_checkpoint", "passed"}

\* Block acceptance asks whether a block may enter.
CallCheckSyncCheckpoint(hashBlock, nHeightBlock) ==
    /\ cs_mainFree
    /\ last' = Call("CheckSyncCheckpoint", NullMessage, hashBlock, nHeightBlock,
                    CheckSyncCheckpointReturns(CheckSyncCheckpoint(hashBlock, nHeightBlock)),
                    CheckSyncCheckpoint(hashBlock, nHeightBlock))
    /\ UNCHANGED << chainVars, autoSelect, memVars, dbVars, checkpointPubKey, strMasterPrivKey, netVars >>

(***************************************************************************)
(* ResetSyncCheckpoint and CheckCheckpointPubKey                           *)
(***************************************************************************)
\* ResetSyncCheckpoint: the genesis block becomes the sync-checkpoint.
ResetSyncCheckpoint(writeOk) == WriteSyncCheckpoint(hashGenesisBlock, writeOk)

\* CheckCheckpointPubKey that resets only when the record cannot be read.
PubKeyChanged_AbsentOnly == dbCheckpointPubKey = NoKey

\* Whether CheckCheckpointPubKey takes the branch that resets: the record cannot
\* be read or differs from the key of the chain parameters.
PubKeyChanged == dbCheckpointPubKey = NoKey \/ dbCheckpointPubKey # checkpointPubKey

\* The path CheckCheckpointPubKey takes; it returns true on "unchanged" and "reset".
CheckCheckpointPubKeyPath(writeOk, writeKeyOk) ==
    IF ~PubKeyChanged THEN "unchanged"
    ELSE IF ~writeOk THEN "reset_failed"
    ELSE IF ~writeKeyOk THEN "write_key_failed"
    ELSE "reset"

CheckCheckpointPubKey(writeOk, writeKeyOk) ==
    LET path == CheckCheckpointPubKeyPath(writeOk, writeKeyOk) IN
    /\ IF PubKeyChanged
       THEN /\ ResetSyncCheckpoint(writeOk)
            /\ dbCheckpointPubKey' = IF path = "reset" THEN checkpointPubKey
                                     ELSE dbCheckpointPubKey
       ELSE UNCHANGED << hashSyncCheckpoint, dbVars >>
    /\ last' = Call("CheckCheckpointPubKey", NullMessage, NullHash, 0,
                    path \in {"unchanged", "reset"}, path)
    /\ UNCHANGED << chainVars, autoSelect, hashPendingCheckpoint, checkpointMessage,
                    checkpointMessagePending, deferredUnknown, checkpointPubKey,
                    strMasterPrivKey, netVars >>

(***************************************************************************)
(* SetCheckpointPrivKey and SendSyncCheckpoint                             *)
(***************************************************************************)
SetCheckpointPrivKey(strPrivKey) ==
    /\ strMasterPrivKey' = IF IsValidSecret(strPrivKey) THEN strPrivKey ELSE strMasterPrivKey
    /\ last' = Call("SetCheckpointPrivKey", NullMessage, NullHash, 0,
                    IsValidSecret(strPrivKey),
                    IF IsValidSecret(strPrivKey) THEN "set" ELSE "invalid")
    /\ UNCHANGED << chainVars, autoSelect, memVars, dbVars, checkpointPubKey, netVars >>

\* SendSyncCheckpoint that leaves out the signing of the checkpoint it builds.
SignedCheckpoint_Unsigned(hashCheckpoint) ==
    [nVersion |-> 1, hashCheckpoint |-> hashCheckpoint,
     vchMsg |-> Serialize(1, hashCheckpoint),
     vchSig |-> NoSig]

\* The checkpoint SendSyncCheckpoint builds and signs with the master private key.
SignedCheckpoint(hashCheckpoint) ==
    [nVersion |-> 1, hashCheckpoint |-> hashCheckpoint,
     vchMsg |-> Serialize(1, hashCheckpoint),
     vchSig |-> Sign(strMasterPrivKey, Hash(Serialize(1, hashCheckpoint)))]

\* The nodes ForEachNode visits.
ConnectedNodes == {n \in Nodes : vNodes[n].connected}

\* GetNodeCount(CConnman::CONNECTIONS_ALL)
GetNodeCount == Cardinality(ConnectedNodes)

\* The path SendSyncCheckpoint takes; it returns true on "p2p_disabled",
\* "no_connections", "dummy" and "sent".
SendPath(hashCheckpoint, writeOk) ==
    IF ~g_connman THEN "p2p_disabled"
    ELSE IF GetNodeCount = 0 THEN "no_connections"
    ELSE IF hashCheckpoint = NullHash THEN "dummy"
    ELSE IF strMasterPrivKey = NoKey THEN "no_key"
    ELSE IF ~IsValidSecret(strMasterPrivKey) THEN "key_invalid"
    ELSE IF ProcessPath(SignedCheckpoint(hashCheckpoint), writeOk) # "accepted"
         THEN "process_failed"
    ELSE "sent"

SendSyncCheckpoint(hashCheckpoint, writeOk) ==
    LET path == SendPath(hashCheckpoint, writeOk) IN
    /\ CASE path = "process_failed" ->
                /\ ProcessEffect(SignedCheckpoint(hashCheckpoint), writeOk)
                /\ UNCHANGED << vNodes, pushed >>
         [] path = "sent" ->
                /\ ProcessEffect(SignedCheckpoint(hashCheckpoint), writeOk)
                /\ RelayToNodes(ConnectedNodes,
                                CheckSignature(SignedCheckpoint(hashCheckpoint)))
         [] OTHER ->
                UNCHANGED << memVars, dbSyncCheckpoint, vNodes, pushed >>
    /\ last' = CallRelaying("SendSyncCheckpoint", NullMessage, hashCheckpoint, 0,
                            path \in {"p2p_disabled", "no_connections", "dummy", "sent"}, path,
                            IF path = "sent"
                            THEN Relayed(ConnectedNodes,
                                         CheckSignature(SignedCheckpoint(hashCheckpoint)), FALSE)
                            ELSE {})
    /\ UNCHANGED << chainVars, autoSelect, dbCheckpointPubKey, checkpointPubKey, strMasterPrivKey,
                    g_connman >>

(***************************************************************************)
(* The network and the life of the process.                                *)
(***************************************************************************)
\* The connection manager is created.
StartConnman ==
    /\ ~g_connman
    /\ g_connman' = TRUE
    /\ last' = Call("StartConnman", NullMessage, NullHash, 0, TRUE, "started")
    /\ UNCHANGED << chainVars, autoSelect, memVars, dbVars, checkpointPubKey, strMasterPrivKey,
                    vNodes, pushed >>

\* A peer connects: a fresh CNode, which has been sent no checkpoint.
ConnectNode(n, support) ==
    /\ g_connman
    /\ ~vNodes[n].connected
    /\ vNodes' = [vNodes EXCEPT ![n] = [connected |-> TRUE, supportACPMessages |-> support,
                                        hashCheckpointKnown |-> NullHash]]
    /\ last' = Call("ConnectNode", NullMessage, NullHash, n, TRUE, "connected")
    /\ UNCHANGED << chainVars, autoSelect, memVars, dbVars, checkpointPubKey, strMasterPrivKey,
                    g_connman, pushed >>

\* A peer disconnects: its CNode is gone, and what was pushed to it with it.
DisconnectNode(n) ==
    /\ vNodes[n].connected
    /\ vNodes' = [vNodes EXCEPT ![n] = NoNode]
    /\ pushed' = { p \in pushed : p[1] # n }
    /\ last' = Call("DisconnectNode", NullMessage, NullHash, n, TRUE, "disconnected")
    /\ UNCHANGED << chainVars, autoSelect, memVars, dbVars, checkpointPubKey, strMasterPrivKey, g_connman >>

\* The node stops and starts again, possibly as a build whose chain parameters
\* name another checkpoint master key: the globals are constructed anew and the
\* sync-checkpoint is read back from the database; the block index and the
\* active chain are loaded as they were.
Restart(pubKey) ==
    /\ hashSyncCheckpoint' = dbSyncCheckpoint
    /\ hashPendingCheckpoint' = NullHash
    /\ checkpointMessage' = NullMessage
    /\ checkpointMessagePending' = NullMessage
    /\ deferredUnknown' = FALSE
    /\ checkpointPubKey' = pubKey
    /\ strMasterPrivKey' = NoKey
    /\ g_connman' = FALSE
    /\ vNodes' = [n \in Nodes |-> NoNode]
    /\ pushed' = {}
    /\ autoSelect' = NoSearch
    /\ last' = Call("Restart", NullMessage, NullHash, 0, TRUE, "restarted")
    /\ UNCHANGED << chainVars, dbVars >>

(***************************************************************************)
(* Specifications.                                                         *)
(***************************************************************************)
\* Whether the write of pblocktree succeeds is the database's choice, made only
\* where the call comes to write.
ProcessWrites(m) == IF ProcessPath(m, TRUE) = "accepted" THEN BOOLEAN ELSE {TRUE}

AcceptPendingWrites == IF AcceptPendingPath(TRUE) = "accepted" THEN BOOLEAN ELSE {TRUE}

CheckCheckpointPubKeyWrites ==
    IF PubKeyChanged THEN {<<TRUE, TRUE>>, <<TRUE, FALSE>>, <<FALSE, TRUE>>} ELSE {<<TRUE, TRUE>>}

SendWrites(hashCheckpoint) == IF SendPath(hashCheckpoint, TRUE) = "sent" THEN BOOLEAN ELSE {TRUE}

\* The chain grows and reorganizes.
ChainStep ==
    \/ \E b \in Blocks : AddToBlockIndex(b)
    \/ \E b \in Blocks : ActivateBestChain(b)

\* The acceptance of checkpoints received from the network.
Acceptance ==
    \/ \E m \in InboundMessages : \E writeOk \in ProcessWrites(m) :
          ProcessSyncCheckpoint(m, writeOk)
    \/ \E writeOk \in AcceptPendingWrites : AcceptPendingSyncCheckpoint(writeOk)
    \/ \E w \in CheckCheckpointPubKeyWrites : CheckCheckpointPubKey(w[1], w[2])

Next ==
    \/ ChainStep
    \/ Acceptance

Spec == Init /\ [][Next]_vars

\* Messages whose fields agree with their payload.
NetMessages == { WireMessage(h, h, k) : h \in Blocks, k \in MasterKeys \cup {NoKey} }

\* Those of them that a master key has signed, the configured one or another.
KeyMessages == { WireMessage(h, h, k) : h \in Blocks, k \in MasterKeys }

\* Messages the configured master key has signed.
MasterMessages == { WireMessage(h, h, "P1") : h \in Blocks }

\* Acceptance across restarts that may change the checkpoint master key.
NextKey ==
    \/ ChainStep
    \/ \E m \in KeyMessages : ProcessSyncCheckpoint(m, TRUE)
    \/ AcceptPendingSyncCheckpoint(TRUE)
    \/ \E w \in CheckCheckpointPubKeyWrites : CheckCheckpointPubKey(w[1], w[2])
    \/ \E k \in MasterKeys : Restart(k)

SpecKey == Init /\ [][NextKey]_vars

\* Acceptance with peers connected that support checkpoint messages, to whom
\* promoted checkpoints are relayed.
NextPeers ==
    \/ ChainStep
    \/ \E m \in KeyMessages : ProcessSyncCheckpoint(m, TRUE)
    \/ AcceptPendingSyncCheckpoint(TRUE)
    \/ CheckCheckpointPubKey(TRUE, TRUE)
    \/ StartConnman
    \/ \E n \in Nodes : ConnectNode(n, TRUE)
    \/ \E n \in Nodes : DisconnectNode(n)

SpecPeers == Init /\ [][NextPeers]_vars

\* Peers and the checkpoint master's broadcast.
NextNet ==
    \/ ChainStep
    \/ \E m \in MasterMessages : ProcessSyncCheckpoint(m, TRUE)
    \/ AcceptPendingSyncCheckpoint(TRUE)
    \/ \E w \in CheckCheckpointPubKeyWrites : CheckCheckpointPubKey(w[1], w[2])
    \/ StartConnman
    \/ \E n \in Nodes, support \in BOOLEAN : ConnectNode(n, support)
    \/ \E n \in Nodes : DisconnectNode(n)
    \/ \E str \in {"P1", InvalidKey} : SetCheckpointPrivKey(str)
    \/ \E h \in Hashes : \E writeOk \in SendWrites(h) : SendSyncCheckpoint(h, writeOk)

SpecNet == Init /\ [][NextNet]_vars

\* The checkpoint master: it sets its key and broadcasts checkpoints, with or
\* without peers.
NextSend ==
    \/ ChainStep
    \/ CheckCheckpointPubKey(TRUE, TRUE)
    \/ StartConnman
    \/ \E n \in Nodes : ConnectNode(n, TRUE)
    \/ \E str \in {"P1", InvalidKey} : SetCheckpointPrivKey(str)
    \/ \E h \in Hashes : \E writeOk \in SendWrites(h) : SendSyncCheckpoint(h, writeOk)

SpecSend == Init /\ [][NextSend]_vars

\* The writes of CheckCheckpointPubKey where the write of the key record may fail
\* after the reset, so that a later call resets again.
KeyRecordWrites == IF PubKeyChanged THEN {<<TRUE, TRUE>>, <<TRUE, FALSE>>} ELSE {<<TRUE, TRUE>>}

\* The master broadcasts the tip of its chain (SendSyncCheckpoint of what
\* AutoSelectSyncCheckpoint returns at depth 0) to peers that support checkpoint
\* messages and to peers that do not, with resets of the sync-checkpoint between
\* the broadcasts.
NextRelay ==
    \/ ChainStep
    \/ \E w \in KeyRecordWrites : CheckCheckpointPubKey(w[1], w[2])
    \/ StartConnman
    \/ \E n \in Nodes, support \in BOOLEAN : ConnectNode(n, support)
    \/ SetCheckpointPrivKey("P1")
    \/ SendSyncCheckpoint(AutoSelectSyncCheckpoint(0), TRUE)

SpecRelay == Init /\ [][NextRelay]_vars

\* The block gate, asked in every state the acceptance of checkpoints reaches.
NextGate ==
    \/ ChainStep
    \/ \E m \in NetMessages : \E writeOk \in ProcessWrites(m) : ProcessSyncCheckpoint(m, writeOk)
    \/ \E writeOk \in AcceptPendingWrites : AcceptPendingSyncCheckpoint(writeOk)
    \/ \E w \in CheckCheckpointPubKeyWrites : CheckCheckpointPubKey(w[1], w[2])
    \/ \E h \in Hashes, n \in Heights : CallCheckSyncCheckpoint(h, n)

SpecGate == Init /\ [][NextGate]_vars

\* The automatic selection, asked on every chain.
NextSelect ==
    \/ ChainStep
    \/ \E depth \in 0..MaxDepth : CallAutoSelectSyncCheckpoint(depth)

SpecSelect == Init /\ [][NextSelect]_vars

\* The automatic selection as a thread of its own beside the chain.
NextSearch ==
    \/ ChainStep
    \/ \E depth \in 0..MaxDepth, held \in CallerHoldsLock : AutoSelectEnter(depth, held)
    \/ AutoSelectLoop

SpecSearch == Init /\ [][NextSearch]_vars

\* The authentication and decoding of message objects, under either master key.
NextCodec ==
    \/ \E m \in CodecMessages : CallCheckSignature(m)
    \/ \E k \in MasterKeys : Restart(k)

SpecCodec == Init /\ [][NextCodec]_vars

\* Acceptance over a block index that can lose a parent pointer.
NextCorrupt ==
    \/ ChainStep
    \/ \E b \in Blocks : CorruptBlockIndex(b)
    \/ \E m \in MasterMessages : ProcessSyncCheckpoint(m, TRUE)
    \/ \E writeOk \in AcceptPendingWrites : AcceptPendingSyncCheckpoint(writeOk)
    \/ CheckCheckpointPubKey(TRUE, TRUE)

SpecCorrupt == Init /\ [][NextCorrupt]_vars

(***************************************************************************)
(* Properties.  A step is told by the call it leaves in last'; the state   *)
(* before the step is the unprimed one.                                    *)
(***************************************************************************)
Max(a, b) == IF a >= b THEN a ELSE b

\* The step is a call of ProcessSyncCheckpoint / AcceptPendingSyncCheckpoint.
IsProcessStep == last'.op = "ProcessSyncCheckpoint"

IsAcceptPendingStep == last'.op = "AcceptPendingSyncCheckpoint"

\* The signature of the message of the step verifies against the master key.
StepMessageVerified ==
    Verify(checkpointPubKey, Hash(last'.msg.vchMsg), last'.msg.vchSig)

\* The block hash the signed payload of the message of the step names.
StepTarget == Unserialize(last'.msg.vchMsg).hashCheckpoint

\* The chain that ends in the tip holds block b.
OnActiveChain(b) == b \in mapBlockIndex /\ Ancestor(chainTip, nHeight(b)) = b

\* The step runs the consistency validation on block c: a verified message for
\* a block of the active chain, or the promotion of a pending block of the index.
StepValidates(c) ==
    \/ IsProcessStep /\ StepMessageVerified /\ StepTarget = c /\ OnActiveChain(c)
    \/ IsAcceptPendingStep /\ c # NullHash /\ hashPendingCheckpoint = c /\ c \in mapBlockIndex

\* C1: every acceptance of a checkpoint, by processing a signed message or by
\* promoting the pending checkpoint, replaces the active checkpoint by a block of
\* strictly greater height whose ancestor at the old checkpoint's height is the old
\* checkpoint; a call of either that does not accept leaves the active checkpoint
\* as it is. So the height of the active checkpoint never decreases.
C1_AcceptanceAdvances ==
    [][ (IsProcessStep \/ IsAcceptPendingStep) =>
          IF last'.ret
          THEN /\ hashSyncCheckpoint \in mapBlockIndex
               /\ hashSyncCheckpoint' \in mapBlockIndex
               /\ hashSyncCheckpoint' = last'.hash
               /\ nHeight(hashSyncCheckpoint') > nHeight(hashSyncCheckpoint)
               /\ Ancestor(hashSyncCheckpoint', nHeight(hashSyncCheckpoint)) = hashSyncCheckpoint
          ELSE hashSyncCheckpoint' = hashSyncCheckpoint ]_vars

\* An acceptance by promotion has advanced the checkpoint over more than one height.
C1_Witness ==
    /\ last.op = "AcceptPendingSyncCheckpoint"
    /\ last.ret
    /\ hashSyncCheckpoint = last.hash
    /\ nHeight(hashSyncCheckpoint) >= 2
    /\ checkpointMessage.hashCheckpoint = hashSyncCheckpoint

\* Block c is at or below the active checkpoint and is not the checkpoint's
\* ancestor at its height.
ConflictsWithCheckpoint(c) ==
    /\ hashSyncCheckpoint \in mapBlockIndex
    /\ c \in mapBlockIndex
    /\ nHeight(c) <= nHeight(hashSyncCheckpoint)
    /\ Ancestor(hashSyncCheckpoint, nHeight(c)) # c

\* C2: fork rejection. When a verified checkpoint for a block at or below the
\* height of the active checkpoint, which is not the active checkpoint's ancestor
\* at that height, is validated, it is rejected as conflicting and the active
\* checkpoint (in memory and in the database) stays; no call that processes a
\* verified message for such a block, and no promotion of it, applies it.
C2_ForkRejection ==
    [][ \A c \in Blocks :
          /\ (StepValidates(c) /\ ConflictsWithCheckpoint(c)) =>
                /\ last'.path = "conflicting"
                /\ ~last'.ret
                /\ hashSyncCheckpoint' = hashSyncCheckpoint
                /\ dbSyncCheckpoint' = dbSyncCheckpoint
                /\ checkpointMessage' = checkpointMessage
          /\ ( /\ IsProcessStep /\ StepMessageVerified /\ StepTarget = c
               /\ ConflictsWithCheckpoint(c) ) =>
                hashSyncCheckpoint' = hashSyncCheckpoint ]_vars

\* A conflicting checkpoint at the height of the active one was rejected, once
\* from a message and once from the pending checkpoint.
C2_Witness ==
    /\ last.path = "conflicting"
    /\ last.op = "AcceptPendingSyncCheckpoint"
    /\ last.hash \in mapBlockIndex
    /\ hashSyncCheckpoint \in mapBlockIndex
    /\ nHeight(last.hash) = nHeight(hashSyncCheckpoint)
    /\ last.hash # hashSyncCheckpoint

\* Block c is above the active checkpoint and does not descend from it.
NotDescendantOfCheckpoint(c) ==
    /\ hashSyncCheckpoint \in mapBlockIndex
    /\ c \in mapBlockIndex
    /\ nHeight(c) > nHeight(hashSyncCheckpoint)
    /\ Ancestor(c, nHeight(hashSyncCheckpoint)) # hashSyncCheckpoint

\* The checkpoint state that message processing can touch is as it was.
CheckpointStateUnchanged ==
    /\ hashSyncCheckpoint' = hashSyncCheckpoint
    /\ hashPendingCheckpoint' = hashPendingCheckpoint
    /\ checkpointMessagePending' = checkpointMessagePending
    /\ checkpointMessage' = checkpointMessage
    /\ dbSyncCheckpoint' = dbSyncCheckpoint

\* C3 as stated: processing a verified message for a block of the index that is
\* higher than the active checkpoint and does not descend from it rejects it as
\* not a descendant and leaves active_hash, pending and last_message unchanged.
C3_Original ==
    [][ \A c \in Blocks :
          ( /\ IsProcessStep /\ StepMessageVerified /\ StepTarget = c
            /\ NotDescendantOfCheckpoint(c) ) =>
             /\ last'.path = "not_descendant"
             /\ CheckpointStateUnchanged ]_vars

\* C3, amended: the rejection as not a descendant, with the checkpoint state left
\* unchanged, is what message processing does when the block is on the active
\* chain; a block of the index that is off the active chain is deferred instead:
\* it becomes the pending checkpoint, the active checkpoint and the last message
\* staying as they are.
C3_DescendantRequirement ==
    [][ \A c \in Blocks :
          ( /\ IsProcessStep /\ StepMessageVerified /\ StepTarget = c
            /\ NotDescendantOfCheckpoint(c) ) =>
             IF OnActiveChain(c)
             THEN /\ last'.path = "not_descendant"
                  /\ ~last'.ret
                  /\ CheckpointStateUnchanged
             ELSE /\ last'.path = "pending"
                  /\ ~last'.ret
                  /\ hashPendingCheckpoint' = c
                  /\ hashSyncCheckpoint' = hashSyncCheckpoint
                  /\ checkpointMessage' = checkpointMessage
                  /\ dbSyncCheckpoint' = dbSyncCheckpoint ]_vars

\* A message for a block of the active chain was rejected as not a descendant
\* while another checkpoint was pending.
C3_Witness ==
    /\ last.op = "ProcessSyncCheckpoint"
    /\ last.path = "not_descendant"
    /\ OnActiveChain(last.hash)
    /\ hashPendingCheckpoint # NullHash
    /\ nHeight(last.hash) > nHeight(hashSyncCheckpoint)
    /\ Ancestor(last.hash, nHeight(hashSyncCheckpoint)) # hashSyncCheckpoint

\* The step processes a verified message for a block the index does not hold.
StepDefersUnknown ==
    IsProcessStep /\ StepMessageVerified /\ StepTarget \notin mapBlockIndex

\* Deferral, the half of C4 that stands: the block becomes the pending checkpoint
\* with the message, as read from the signed payload, and the active checkpoint
\* and the last message stay.
DeferralSetsPending ==
    StepDefersUnknown =>
        /\ last'.path = "pending"
        /\ hashPendingCheckpoint' = StepTarget
        /\ checkpointMessagePending' =
              [last'.msg EXCEPT !.nVersion = Unserialize(last'.msg.vchMsg).nVersion,
                                !.hashCheckpoint = StepTarget]
        /\ hashSyncCheckpoint' = hashSyncCheckpoint
        /\ dbSyncCheckpoint' = dbSyncCheckpoint
        /\ checkpointMessage' = checkpointMessage

\* The step is a promotion attempt for a pending checkpoint that had been
\* deferred for an unknown block, which is by now in the index and on the
\* active chain.
StepPromotesArrived ==
    /\ IsAcceptPendingStep
    /\ deferredUnknown
    /\ hashPendingCheckpoint # NullHash
    /\ OnActiveChain(hashPendingCheckpoint)

\* C4 as stated (with an active checkpoint in place, and a write to the database
\* that fails set aside): a verified message for an unknown block H is deferred,
\* and once H is in the index and on the active chain the next
\* AcceptPendingSyncCheckpoint accepts it: afterwards active_hash = H and pending
\* is cleared.
C4_Original ==
    [][ /\ DeferralSetsPending
        /\ ( /\ StepPromotesArrived
             /\ hashSyncCheckpoint \in mapBlockIndex
             /\ last'.path # "write_failed" ) =>
              /\ hashSyncCheckpoint' = hashPendingCheckpoint
              /\ hashPendingCheckpoint' = NullHash ]_vars

\* The pending block is above the active checkpoint and descends from it.
PendingDescendsFromCheckpoint ==
    /\ hashSyncCheckpoint \in mapBlockIndex
    /\ nHeight(hashPendingCheckpoint) > nHeight(hashSyncCheckpoint)
    /\ Ancestor(hashPendingCheckpoint, nHeight(hashSyncCheckpoint)) = hashSyncCheckpoint

\* C4, amended: a verified message for an unknown block H is deferred (pending = H
\* with the message, active_hash unchanged). Once H is in the index and on the
\* active chain, the next AcceptPendingSyncCheckpoint accepts it exactly when H is
\* higher than the active checkpoint and descends from it and the write to the
\* database succeeds: then active_hash = H, the pending message becomes the last
\* message and pending is cleared. When the write fails nothing changes; when H is
\* not such a descendant (or there is no active checkpoint) pending is cleared and
\* active_hash stays.
C4_DeferralAndPromotion ==
    [][ /\ DeferralSetsPending
        /\ StepPromotesArrived =>
              IF PendingDescendsFromCheckpoint
              THEN IF last'.path = "write_failed"
                   THEN /\ ~last'.ret
                        /\ CheckpointStateUnchanged
                   ELSE /\ last'.ret
                        /\ hashSyncCheckpoint' = hashPendingCheckpoint
                        /\ dbSyncCheckpoint' = hashPendingCheckpoint
                        /\ checkpointMessage' = checkpointMessagePending
                        /\ hashPendingCheckpoint' = NullHash
                        /\ checkpointMessagePending' = NullMessage
              ELSE /\ ~last'.ret
                   /\ hashSyncCheckpoint' = hashSyncCheckpoint
                   /\ dbSyncCheckpoint' = dbSyncCheckpoint
                   /\ checkpointMessage' = checkpointMessage
                   /\ hashPendingCheckpoint' = NullHash
                   /\ checkpointMessagePending' = NullMessage ]_vars

\* A checkpoint deferred for an unknown block was promoted once the block had
\* been added to the index and connected to the active chain.
C4_Witness ==
    /\ last.op = "AcceptPendingSyncCheckpoint"
    /\ last.ret
    /\ last.msg.hashCheckpoint = last.hash
    /\ hashSyncCheckpoint = last.hash
    /\ checkpointMessage = last.msg
    /\ hashPendingCheckpoint = NullHash
    /\ last.hash # hashGenesisBlock
    /\ deferredUnknown

\* C5: idempotence of re-processing. When processing message m has accepted it,
\* processing the same m again right afterwards does not accept it (it is ignored
\* as an older checkpoint consistent with the active one) and leaves the active
\* checkpoint, the pending checkpoint, the last message and the database as the
\* first processing left them.
C5_ReprocessingIdempotent ==
    [][ ( /\ last.op = "ProcessSyncCheckpoint" /\ last.ret
          /\ IsProcessStep /\ last'.msg = last.msg ) =>
            /\ ~last'.ret
            /\ last'.path = "older"
            /\ CheckpointStateUnchanged
            /\ dbCheckpointPubKey' = dbCheckpointPubKey ]_vars

\* The message that had just been accepted was processed a second time.
C5_Witness ==
    /\ last.op = "ProcessSyncCheckpoint"
    /\ last.prev = "accepted"
    /\ ~last.ret
    /\ checkpointMessage.vchMsg = last.msg.vchMsg
    /\ checkpointMessage.vchSig = last.msg.vchSig
    /\ hashSyncCheckpoint = Unserialize(last.msg.vchMsg).hashCheckpoint
    /\ nHeight(hashSyncCheckpoint) >= 1

\* The last call asked the block gate about block b at b's own height, which is
\* above 0 and at or below the height of the active checkpoint.
GateAskedAtOrBelow(b) ==
    /\ last.op = "CheckSyncCheckpoint"
    /\ last.hash = b
    /\ last.n = nHeight(b)
    /\ hashSyncCheckpoint \in mapBlockIndex
    /\ 0 < nHeight(b)
    /\ nHeight(b) <= nHeight(hashSyncCheckpoint)

\* C6 as stated: a block above height 0 and at or below the height of the active
\* checkpoint passes CheckSyncCheckpoint only if it is the active checkpoint
\* (equal height) or the active checkpoint's ancestor at its height (lower
\* height).
C6_Original ==
    \A b \in Blocks :
       (GateAskedAtOrBelow(b) /\ last.ret) =>
           b = Ancestor(hashSyncCheckpoint, nHeight(b))

\* C6, amended: at the height of the active checkpoint a block passes
\* CheckSyncCheckpoint exactly when it is the active checkpoint; below that height
\* it passes exactly when the block index holds it already, be it an ancestor of
\* the checkpoint or a block of a fork that does not lead to it. What is rejected
\* below the checkpoint is a block the index does not hold yet.
C6_GateAtOrBelowCheckpoint ==
    \A b \in Blocks :
       GateAskedAtOrBelow(b) =>
           ( last.ret <=>
               \/ nHeight(b) = nHeight(hashSyncCheckpoint) /\ b = hashSyncCheckpoint
               \/ nHeight(b) < nHeight(hashSyncCheckpoint) /\ b \in mapBlockIndex )

\* The gate has passed a block of the index that lies below the checkpoint on a
\* fork that does not lead to it.
C6_Witness ==
    /\ last.op = "CheckSyncCheckpoint"
    /\ last.ret
    /\ GateAskedAtOrBelow(last.hash)
    /\ nHeight(last.hash) < nHeight(hashSyncCheckpoint)
    /\ last.hash \in mapBlockIndex
    /\ last.hash # Ancestor(hashSyncCheckpoint, nHeight(last.hash))

\* C7: genesis/null bypass. In every reachable state CheckSyncCheckpoint returns
\* true for every block hash when the height is 0, and for every block hash and
\* height when the active checkpoint is the null hash; it returns before it looks
\* into the block index.
C7_GenesisNullBypass ==
    (last.op = "CheckSyncCheckpoint" /\ (last.n = 0 \/ hashSyncCheckpoint = NullHash)) =>
        /\ last.ret
        /\ last.path = (IF last.n = 0 THEN "genesis" ELSE "no_checkpoint")

\* With no active checkpoint the gate has passed a block above height 0 that the
\* index does not hold, on a chain that has grown past the genesis block.
C7_Witness ==
    /\ last.op = "CheckSyncCheckpoint"
    /\ hashSyncCheckpoint = NullHash
    /\ last.n > 0
    /\ last.hash \notin mapBlockIndex
    /\ chainTip # hashGenesisBlock
    /\ last.ret

\* The step is a call of CheckCheckpointPubKey.
IsCheckPubKeyStep == last'.op = "CheckCheckpointPubKey"

\* The key record of the database is absent or is not the configured key.
KeyRecordStale == dbCheckpointPubKey = NoKey \/ dbCheckpointPubKey # checkpointPubKey

\* C8 as stated: when CheckCheckpointPubKey finds the key record absent or
\* different from the configured key it sets the active checkpoint, in memory and
\* in the database, to the genesis block and records the configured key; a call
\* that follows with the same configured key changes nothing.
C8_Original ==
    [][ IsCheckPubKeyStep =>
          IF KeyRecordStale
          THEN /\ hashSyncCheckpoint' = hashGenesisBlock
               /\ dbSyncCheckpoint' = hashGenesisBlock
               /\ dbCheckpointPubKey' = checkpointPubKey
          ELSE UNCHANGED << hashSyncCheckpoint, dbSyncCheckpoint, dbCheckpointPubKey >> ]_vars

\* C8, amended: when CheckCheckpointPubKey finds the key record absent or
\* different from the configured key and both writes to the database succeed, it
\* sets the active checkpoint, in memory and in the database, to the genesis block
\* and records the configured key, and a call that follows with the same
\* configured key changes nothing. When the write of the checkpoint fails nothing
\* changes; when the write of the key fails the checkpoint is reset but the key
\* record stays as it was, so the call that follows resets again.
C8_KeyRotationReset ==
    [][ IsCheckPubKeyStep =>
          /\ UNCHANGED << hashPendingCheckpoint, checkpointMessage, checkpointMessagePending,
                          checkpointPubKey >>
          /\ IF KeyRecordStale
             THEN CASE last'.path = "reset" ->
                         /\ last'.ret
                         /\ hashSyncCheckpoint' = hashGenesisBlock
                         /\ dbSyncCheckpoint' = hashGenesisBlock
                         /\ dbCheckpointPubKey' = checkpointPubKey
                    [] last'.path = "reset_failed" ->
                         /\ ~last'.ret
                         /\ UNCHANGED << hashSyncCheckpoint, dbSyncCheckpoint, dbCheckpointPubKey >>
                    [] last'.path = "write_key_failed" ->
                         /\ ~last'.ret
                         /\ hashSyncCheckpoint' = hashGenesisBlock
                         /\ dbSyncCheckpoint' = hashGenesisBlock
                         /\ dbCheckpointPubKey' = dbCheckpointPubKey
                    [] OTHER -> FALSE
             ELSE /\ last'.path = "unchanged"
                  /\ last'.ret
                  /\ UNCHANGED << hashSyncCheckpoint, dbSyncCheckpoint, dbCheckpointPubKey >> ]_vars

\* After a restart under another master key, with the active chain grown past the
\* genesis block, the first call has reset the checkpoint to the genesis block and
\* recorded the new key, and the call that followed found the key unchanged.
C8_Witness ==
    /\ last.op = "CheckCheckpointPubKey"
    /\ last.path = "unchanged"
    /\ last.prev = "reset"
    /\ checkpointPubKey = "P2"
    /\ dbCheckpointPubKey = "P2"
    /\ hashSyncCheckpoint = hashGenesisBlock
    /\ dbSyncCheckpoint = hashGenesisBlock
    /\ chainTip # hashGenesisBlock

\* C9: for every active chain with tip height T and every depth d >= 0,
\* AutoSelectSyncCheckpoint returns the block at height max(0, T - d) that is the
\* ancestor of the current tip, also right after a reorganization has changed the
\* tip.
C9_AutoSelectDepth ==
    (last.op = "AutoSelectSyncCheckpoint" /\ last.n >= 0) =>
        /\ last.hash \in mapBlockIndex
        /\ nHeight(last.hash) = Max(0, nHeight(chainTip) - last.n)
        /\ last.hash = Ancestor(chainTip, Max(0, nHeight(chainTip) - last.n))

\* Right after a reorganization the selection has gone back from the new tip to a
\* block that is neither the tip nor the genesis block.
C9_Witness ==
    /\ last.op = "AutoSelectSyncCheckpoint"
    /\ last.prev = "reorganized"
    /\ last.n >= 1
    /\ last.hash # chainTip
    /\ last.hash # hashGenesisBlock
    /\ nHeight(last.hash) = nHeight(chainTip) - last.n

\* C10: a message whose signature does not verify against the checkpoint master
\* public key changes nothing: after processing it the active checkpoint, the
\* pending checkpoint and its message, the last message and the database are as
\* before, and nothing is pushed to any peer.
C10_BadSignatureNoChange ==
    [][ (IsProcessStep /\ ~StepMessageVerified) =>
          /\ ~last'.ret
          /\ last'.path = "bad_signature"
          /\ CheckpointStateUnchanged
          /\ dbCheckpointPubKey' = dbCheckpointPubKey
          /\ vNodes' = vNodes
          /\ pushed' = pushed
          /\ last'.relay = {} ]_vars

\* With a peer connected that supports checkpoint messages, a message signed by a
\* key that is not the master key was turned down although its block is on the
\* active chain and descends from the active checkpoint.
C10_Witness ==
    /\ last.op = "ProcessSyncCheckpoint"
    /\ last.path = "bad_signature"
    /\ last.msg.vchSig.key = "P2"
    /\ \E n \in Nodes : vNodes[n].connected /\ vNodes[n].supportACPMessages
    /\ OnActiveChain(Unserialize(last.msg.vchMsg).hashCheckpoint)
    /\ hashSyncCheckpoint \in mapBlockIndex
    /\ nHeight(Unserialize(last.msg.vchMsg).hashCheckpoint) > nHeight(hashSyncCheckpoint)
    /\ Ancestor(Unserialize(last.msg.vchMsg).hashCheckpoint, nHeight(hashSyncCheckpoint))
          = hashSyncCheckpoint

\* C11: WriteSyncCheckpoint makes no partial update. The active checkpoint in
\* memory is in every reachable state the record of the database (the null hash
\* before the first write), a step that changes it has written the same hash to
\* the database, and when the write fails in ProcessSyncCheckpoint or in
\* AcceptPendingSyncCheckpoint the active checkpoint, the pending checkpoint with
\* its message, the last message and the database are left as they were.
C11_NoPartialUpdate ==
    /\ [](hashSyncCheckpoint = dbSyncCheckpoint)
    /\ [][ /\ (hashSyncCheckpoint' # hashSyncCheckpoint) => (dbSyncCheckpoint' = hashSyncCheckpoint')
           /\ ((IsProcessStep \/ IsAcceptPendingStep) /\ last'.path = "write_failed") =>
                 /\ ~last'.ret
                 /\ CheckpointStateUnchanged ]_vars

\* The write failed during the promotion of a pending checkpoint that descends
\* from an active checkpoint above the genesis block: the pending checkpoint is
\* still there and the active checkpoint is still the record of the database.
C11_Witness ==
    /\ last.op = "AcceptPendingSyncCheckpoint"
    /\ last.path = "write_failed"
    /\ hashPendingCheckpoint = last.hash
    /\ checkpointMessagePending.hashCheckpoint = last.hash
    /\ hashSyncCheckpoint # hashGenesisBlock
    /\ hashSyncCheckpoint = dbSyncCheckpoint
    /\ nHeight(hashPendingCheckpoint) > nHeight(hashSyncCheckpoint)

\* C12: round trip. When CheckSignature succeeds on a message whose payload is the
\* encoding of (version, hash), signed with the master key, the message's fields
\* are that version and that hash; and after every successful CheckSignature the
\* fields nVersion and hashCheckpoint are the values decoded from the payload,
\* whatever they were set to before.
C12_RoundTrip ==
    [][ (last'.op = "CheckSignature" /\ StepMessageVerified) =>
          /\ last'.ret
          /\ last'.n = Unserialize(last'.msg.vchMsg).nVersion
          /\ last'.hash = Unserialize(last'.msg.vchMsg).hashCheckpoint
          /\ \A v \in Versions, h \in Hashes :
                (last'.msg.vchMsg = Serialize(v, h)) => (last'.n = v /\ last'.hash = h) ]_vars

\* A message signed by the master key was verified whose fields had been set to
\* another version and another hash than its payload encodes, the version of the
\* payload filling more than one byte.
C12_Witness ==
    /\ last.op = "CheckSignature"
    /\ last.ret
    /\ last.msg.vchMsg = Serialize(258, 3)
    /\ last.msg.nVersion # 258
    /\ last.msg.hashCheckpoint # 3
    /\ last.n = 258
    /\ last.hash = 3
    /\ checkpointPubKey = "P2"

\* The block of the pending checkpoint is in the index and on the active chain.
PendingKnownOnChain ==
    hashPendingCheckpoint # NullHash /\ OnActiveChain(hashPendingCheckpoint)

\* C13 as stated (with an active checkpoint in place): AcceptPendingSyncCheckpoint
\* changes nothing whenever the block of the pending checkpoint is not both in the
\* block index and on the active chain.
C13_Original ==
    [][ ( /\ IsAcceptPendingStep /\ ~PendingKnownOnChain
          /\ hashSyncCheckpoint \in mapBlockIndex ) =>
          /\ ~last'.ret
          /\ CheckpointStateUnchanged ]_vars

\* C13, amended: when the block of the pending checkpoint is not both in the block
\* index and on the active chain, AcceptPendingSyncCheckpoint accepts nothing and
\* leaves the active checkpoint, the database and the last message as they are. It
\* leaves the pending checkpoint too when there is none, when its block is not in
\* the index, or when the block is in the index, off the active chain, higher than
\* the active checkpoint and descends from it; a pending block that is in the
\* index and off the active chain and fails the validation against the active
\* checkpoint is cleared with its message.
C13_PromotionWithoutChainMember ==
    [][ (IsAcceptPendingStep /\ ~PendingKnownOnChain) =>
          /\ ~last'.ret
          /\ hashSyncCheckpoint' = hashSyncCheckpoint
          /\ dbSyncCheckpoint' = dbSyncCheckpoint
          /\ checkpointMessage' = checkpointMessage
          /\ IF \/ hashPendingCheckpoint = NullHash
                \/ hashPendingCheckpoint \notin mapBlockIndex
                \/ PendingDescendsFromCheckpoint
             THEN /\ hashPendingCheckpoint' = hashPendingCheckpoint
                  /\ checkpointMessagePending' = checkpointMessagePending
             ELSE /\ hashPendingCheckpoint' = NullHash
                  /\ checkpointMessagePending' = NullMessage ]_vars

\* A pending checkpoint whose block is in the index but off the active chain, at
\* the height of the active checkpoint on another branch, was cleared by the
\* promotion attempt.
C13_Witness ==
    /\ last.op = "AcceptPendingSyncCheckpoint"
    /\ last.path = "conflicting"
    /\ last.hash \in mapBlockIndex
    /\ ~OnActiveChain(last.hash)
    /\ last.msg.hashCheckpoint = last.hash
    /\ hashPendingCheckpoint = NullHash
    /\ checkpointMessagePending = NullMessage
    /\ hashSyncCheckpoint # last.hash

\* The step is a promotion attempt for a pending checkpoint whose block is in the
\* index and on the active chain.
StepPromotesOnChain == IsAcceptPendingStep /\ PendingKnownOnChain

\* C14 as stated: such an attempt clears the pending checkpoint if and only if its
\* outcome is not an internal error, that is, it keeps it when the validation
\* finds a null pprev or when the write to the database fails.
C14_Original ==
    [][ StepPromotesOnChain =>
          ( (hashPendingCheckpoint' = NullHash) <=>
               last'.path \notin {"pprev1_null", "pprev2_null", "write_failed"} ) ]_vars

\* C14, amended: such an attempt clears the pending checkpoint with its message if
\* and only if its outcome is not a failure of the write to the database. It is
\* cleared when the checkpoint is accepted, when it is older than the active
\* checkpoint and consistent with it, when it conflicts with the active checkpoint
\* or does not descend from it, when the active checkpoint is not in the index,
\* and when the validation finds a null pprev; of these only the acceptance
\* changes the active checkpoint. When the write fails everything is kept.
C14_PromotionClearsPending ==
    [][ StepPromotesOnChain =>
          /\ last'.path \in {"accepted", "older", "conflicting", "not_descendant",
                              "missing_current", "pprev1_null", "pprev2_null", "write_failed"}
          /\ last'.ret <=> (last'.path = "accepted")
          /\ IF last'.path = "write_failed"
             THEN CheckpointStateUnchanged
             ELSE /\ hashPendingCheckpoint' = NullHash
                  /\ checkpointMessagePending' = NullMessage
                  /\ last'.ret \/ ( /\ hashSyncCheckpoint' = hashSyncCheckpoint
                                     /\ dbSyncCheckpoint' = dbSyncCheckpoint
                                     /\ checkpointMessage' = checkpointMessage ) ]_vars

\* The promotion of a pending checkpoint on the active chain, above the active
\* checkpoint, walked into a null pprev and the pending checkpoint was cleared.
C14_Witness ==
    /\ last.op = "AcceptPendingSyncCheckpoint"
    /\ last.path = "pprev2_null"
    /\ OnActiveChain(last.hash)
    /\ hashSyncCheckpoint \in mapBlockIndex
    /\ nHeight(last.hash) > nHeight(hashSyncCheckpoint)
    /\ hashPendingCheckpoint = NullHash
    /\ checkpointMessagePending = NullMessage

\* The step is a call of SendSyncCheckpoint for a block hash, made with the
\* private key of the configured master key in place.
IsMasterSendStep ==
    /\ last'.op = "SendSyncCheckpoint"
    /\ last'.hash # NullHash
    /\ strMasterPrivKey = checkpointPubKey

\* What the processing of a message for block h, signed by the master key, leaves
\* of the checkpoint state: h is deferred when it is not on the active chain,
\* accepted when it is higher than the active checkpoint and descends from it
\* (unless the write to the database fails), and nothing changes otherwise.
StateAsAfterReceiving(h) ==
    IF ~OnActiveChain(h)
    THEN /\ hashPendingCheckpoint' = h
         /\ checkpointMessagePending' = WireMessage(h, h, checkpointPubKey)
         /\ hashSyncCheckpoint' = hashSyncCheckpoint
         /\ dbSyncCheckpoint' = dbSyncCheckpoint
         /\ checkpointMessage' = checkpointMessage
    ELSE IF /\ hashSyncCheckpoint \in mapBlockIndex
            /\ nHeight(h) > nHeight(hashSyncCheckpoint)
            /\ Ancestor(h, nHeight(hashSyncCheckpoint)) = hashSyncCheckpoint
         THEN \/ /\ hashSyncCheckpoint' = h
                 /\ dbSyncCheckpoint' = h
                 /\ checkpointMessage' = WireMessage(h, h, checkpointPubKey)
                 /\ hashPendingCheckpoint' = NullHash
                 /\ checkpointMessagePending' = NullMessage
              \/ /\ last'.path = "process_failed"
                 /\ CheckpointStateUnchanged
         ELSE CheckpointStateUnchanged

\* C15 as stated: with a valid master private key in place, SendSyncCheckpoint for
\* a non-null hash leaves the active checkpoint, the pending checkpoint and the
\* last message as the processing of a received message signed for that hash
\* would, however many peers are connected.
C15_Original ==
    [][ IsMasterSendStep => StateAsAfterReceiving(last'.hash) ]_vars

\* C15, amended: that holds when the connection manager exists and at least one
\* peer is connected. Without a connection manager or without a connected peer
\* SendSyncCheckpoint returns true before it builds the checkpoint: nothing is
\* processed, and the checkpoint state stays as it is.
C15_SelfProducedAsReceived ==
    [][ IsMasterSendStep =>
          IF g_connman /\ (\E n \in Nodes : vNodes[n].connected)
          THEN /\ StateAsAfterReceiving(last'.hash)
               /\ last'.ret <=> (hashSyncCheckpoint' = last'.hash /\ hashSyncCheckpoint # last'.hash)
          ELSE /\ last'.ret
               /\ CheckpointStateUnchanged
               /\ pushed' = pushed ]_vars

\* The master has broadcast a checkpoint above the genesis block to a connected
\* peer: the block is the active checkpoint, and the last message is the one a
\* peer would have received.
C15_Witness ==
    /\ last.op = "SendSyncCheckpoint"
    /\ last.path = "sent"
    /\ last.relay # {}
    /\ hashSyncCheckpoint = last.hash
    /\ nHeight(last.hash) >= 1
    /\ checkpointMessage = WireMessage(last.hash, last.hash, checkpointPubKey)
    /\ hashPendingCheckpoint = NullHash

(***************************************************************************)
(* C16: every step of an ancestry walk is made while its thread holds      *)
(* cs_main, so that no reorganization and no change of the block index     *)
(* falls between two steps of a walk.  The validator and the block gate    *)
(* walk within one step of the operation that holds the lock; the          *)
(* automatic selection is the walk that has steps of its own.              *)
(***************************************************************************)
C16_WalksUnderLock ==
    [][ autoSelect.pc = "search" => (autoSelect.held /\ chainVars' = chainVars) ]_vars

(***************************************************************************)
(* C17: no checkpoint message is pushed to a peer while the pushing thread *)
(* holds cs_main, after the promotion of the pending checkpoint and after  *)
(* the master's broadcast alike.                                           *)
(***************************************************************************)
C17_RelayOutsideLock ==
    [][ \A r \in last'.relay : ~r.locked ]_vars

C19_CheckpointInBlockIndex ==
    /\ hashSyncCheckpoint # NullHash => hashSyncCheckpoint \in mapBlockIndex
    /\ last.path # "assert"

\* The gate was asked about a block above the genesis block while the
\* sync-checkpoint was a block above the genesis block: it came to the assertion.
C19_Witness ==
    /\ last.op = "CheckSyncCheckpoint"
    /\ last.n > 0
    /\ hashSyncCheckpoint \notin {NullHash, hashGenesisBlock}
    /\ last.path \notin {"genesis", "no_checkpoint", "assert"}

(***************************************************************************)
(* C20: while the sync-checkpoint is null, no processing of a message and  *)
(* no promotion of the pending checkpoint changes it: where the call comes *)
(* to validate, the validation fails for the sync-checkpoint that is not   *)
(* in the block index.  Only the reset of CheckCheckpointPubKey ends the   *)
(* state, with the genesis block as the sync-checkpoint.                   *)
(***************************************************************************)
\* The step comes to ValidateSyncCheckpoint: a verified message for a block on
\* the active chain, or a pending checkpoint whose block the index holds.
StepReachesValidation ==
    \/ IsProcessStep /\ StepMessageVerified /\ OnActiveChain(StepTarget)
    \/ /\ IsAcceptPendingStep
       /\ hashPendingCheckpoint # NullHash
       /\ hashPendingCheckpoint \in mapBlockIndex

C20_NoCheckpointUntilReset ==
    [][ hashSyncCheckpoint = NullHash =>
          /\ (IsProcessStep \/ IsAcceptPendingStep) =>
                /\ hashSyncCheckpoint' = NullHash
                /\ dbSyncCheckpoint' = dbSyncCheckpoint
                /\ checkpointMessage' = checkpointMessage
                /\ ~last'.ret
                /\ StepReachesValidation => last'.path = "missing_current"
          /\ hashSyncCheckpoint' # NullHash =>
                /\ IsCheckPubKeyStep
                /\ KeyRecordStale
                /\ hashSyncCheckpoint' = hashGenesisBlock ]_vars

\* A correctly signed message for a block of the active chain was processed and
\* refused while the sync-checkpoint was null.
C20_Witness ==
    /\ last.op = "ProcessSyncCheckpoint"
    /\ last.path = "missing_current"
    /\ last.hash \in mapBlockIndex
    /\ hashSyncCheckpoint = NullHash

====
